---- MODULE Spec2Model ----
(***************************************************************************)
(* Model of python/phire/rplearn/train.py: the sample parser parse_train,  *)
(* the input pipeline make_train_ds, the two datasets of Train.setup_ds    *)
(* and the learning-rate schedule of Train.train.                          *)
(*                                                                         *)
(* Number conventions.  A float is a record [fn, num, den]: fn = "f32" is  *)
(* the float32 whose bit pattern is num (den = 1); fn = "cos" / "sin" is   *)
(* the cosine / sine of 2*pi*(num/den), num/den a fraction in lowest       *)
(* terms.  Sample weights are counted in tenths (19 = 1.9), the learning   *)
(* rate in units of 1e-5 and the loss in units of 1e-2.                    *)
(***************************************************************************)
EXTENDS Integers, Sequences, FiniteSets, Bags, TLC

VARIABLES
    call,      \* arguments of the pending parse_train call
    ret,       \* <<>> before the call returns, <<result>> after
    cfg,       \* arguments of make_train_ds (+ take) of the dataset iterated
    files,     \* the files, each a sequence of runs [rec, n] of n equal records
    src,       \* the runs the reader has not yet read
    buf,       \* the shuffle buffer, a bag of records
    emitted,   \* batches the iterator has yielded in this pass
    out,       \* <<>> or <<the batch yielded last>>
    status,    \* "iter" while the pass goes on, "end" once next() found its end
    epoch,     \* epochs Model.fit has finished
    lr,        \* optimizer.learning_rate, in units of 1e-5
    best,      \* ReduceLROnPlateau.best, in units of 1e-2
    wait,      \* ReduceLROnPlateau.wait
    cooldown_counter,  \* ReduceLROnPlateau.cooldown_counter
    stale      \* epochs in a row, up to the last, whose loss did not improve on best

parseVars == <<call, ret>>
dsVars == <<cfg, files, src, buf, emitted, out, status>>
fitVars == <<epoch, lr, best, wait, cooldown_counter, stale>>
vars == <<call, ret, cfg, files, src, buf, emitted, out, status,
          epoch, lr, best, wait, cooldown_counter, stale>>

---------------------------------------------------------------------------
(* Bounds of the model. *)
MaxDim == 2      \* patches are H x W with H, W in 1..MaxDim
MaxN == 2        \* records in one parse_train call of ParseSpec
MaxT == 3        \* T_max stored in a record is in 1..MaxT
MaxLen == 4      \* records in the files of DsSpec
MaxBatch == 2    \* batch_size of DsSpec is in 1..MaxBatch
MaxShuffle == 2  \* n_shuffle of DsSpec is None (0) or MaxShuffle
MaxLoss == 9     \* the loss of an epoch is in 0..MaxLoss (units of 1e-2)

(* Program constants. *)
n_classes == 31
TrainBatchSize == 128
TrainShuffle == 2000
TrainTake == 5400
Epochs == 110
InitialLr == 10000
MinLr == 1
MinDelta == 4
Patience == 8
Cooldown == 0
Factor == 10
WeightNear == 19
WeightFar == 1
WeightOne == 10

---------------------------------------------------------------------------
(* Numbers *)

RECURSIVE Gcd(_, _)
Gcd(a, b) == IF b = 0 THEN a ELSE Gcd(b, a % b)

Abs(a) == IF a < 0 THEN -a ELSE a

\* num/den in lowest terms with a positive denominator
Frac(num, den) ==
    LET g == Gcd(Abs(num), Abs(den))
        s == IF den < 0 THEN -1 ELSE 1
    IN  [num |-> s * (num \div g), den |-> s * (den \div g)]

F32(bits) == [fn |-> "f32", num |-> bits, den |-> 1]

\* tf.math.cos(2*np.pi * x / period), x = q.num/q.den
Cos(q, period) ==
    LET f == Frac(q.num, q.den * period) IN [fn |-> "cos", num |-> f.num, den |-> f.den]

\* tf.math.sin(2*np.pi * x / period)
Sin(q, period) ==
    LET f == Frac(q.num, q.den * period) IN [fn |-> "sin", num |-> f.num, den |-> f.den]

\* tf.linspace(start, stop, num) for start, stop of shape (N,): shape (num, N),
\* row i = start + i * (stop - start) / (num - 1); num = 1 gives start
linspace(start, stop, num) ==
    [i \in 1..num |->
        [n \in 1..Len(start) |->
            IF num = 1 THEN Frac(start[n], 1)
            ELSE Frac(start[n] * (num - 1) + (i - 1) * (stop[n] - start[n]), num - 1)]]

\* tf.io.decode_raw(bytes, tf.float32): 4 little-endian bytes per float
decode_raw(bytes) ==
    [i \in 1..(Len(bytes) \div 4) |->
        F32(bytes[4*i - 3] + 256 * bytes[4*i - 2]
            + 65536 * bytes[4*i - 1] + 16777216 * bytes[4*i])]

\* tf.reshape(flat, (-1, H, W, C)) of a (N, H*W*C) tensor, row-major
reshape(flat, H, W, C) ==
    [n \in 1..Len(flat) |->
        [h \in 1..H |-> [w \in 1..W |-> [c \in 1..C |->
            flat[n][((h - 1) * W + (w - 1)) * C + c]]]]]

\* tf.one_hot(indices, depth): row n has a 1 at 0-based index indices[n]
\* (position indices[n] + 1 here) when 0 <= indices[n] < depth, and is all 0 otherwise
one_hot(indices, depth) ==
    [n \in 1..Len(indices) |->
        [k \in 1..depth |-> IF indices[n] = k - 1 THEN 1 ELSE 0]]

\* tf.math.reduce_sum of a vector
RECURSIVE reduce_sum(_)
reduce_sum(v) == IF v = <<>> THEN 0 ELSE Head(v) + reduce_sum(Tail(v))

---------------------------------------------------------------------------
(* parse_train *)

Keys == {"H", "W", "C", "T_max", "label", "patch1", "patch2",
         "lat_start", "lat_end", "long_start", "long_end"}

\* parse_samples: the features of a batch of serialized records, by key
parse_samples(serialized) ==
    [k \in Keys |-> [n \in 1..Len(serialized) |-> serialized[n][k]]]

\* x[:,:,None,None] transposed by [1,0,2,3] and tiled [1,1,W,1]:
\* (H,N) -> (N,H,W,1), constant along the width
TileLat(x, W) ==
    [n \in 1..Len(x[1]) |-> [h \in 1..Len(x) |-> [w \in 1..W |-> <<x[h][n]>>]]]

\* x[:,:,None,None] transposed by [1,2,0,3] and tiled (1,H,1,1):
\* (W,N) -> (N,H,W,1), constant along the height
TileLon(x, H) ==
    [n \in 1..Len(x[1]) |-> [h \in 1..H |-> [w \in 1..Len(x) |-> <<x[w][n]>>]]]

\* tf.concat(parts, axis=-1) of tensors of shape (N,H,W,*)
concat(parts) ==
    [n \in 1..Len(parts[1]) |->
        [h \in 1..Len(parts[1][n]) |->
            [w \in 1..Len(parts[1][n][h]) |->
                LET RECURSIVE Cat(_)
                    Cat(i) == IF i > Len(parts) THEN <<>>
                              ELSE parts[i][n][h][w] \o Cat(i + 1)
                IN  Cat(1)]]]

\* T_max = tmax or examples['T_max'][0]; tmax = 0 stands for None
ClassBound(examples, tmax) == IF tmax # 0 THEN tmax ELSE examples["T_max"][1]

\* a variant of Labels that takes the label itself as the index
LabelsUnshifted(examples, T_max) ==
    one_hot([n \in 1..Len(examples["label"]) |-> examples["label"][n]], T_max - 1)

Labels(examples, T_max) ==
    one_hot([n \in 1..Len(examples["label"]) |-> examples["label"][n] - 1], T_max - 1)

\* a variant of Weights that compares with < instead of <=
WeightsStrict(examples, T_max, discount) ==
    IF discount
    THEN [n \in 1..Len(examples["label"]) |->
            IF examples["label"][n] < (T_max \div 2) THEN WeightNear ELSE WeightFar]
    ELSE [n \in 1..Len(examples["H"]) |-> WeightOne]

Weights(examples, T_max, discount) ==
    IF discount
    THEN [n \in 1..Len(examples["label"]) |->
            IF examples["label"][n] <= (T_max \div 2) THEN WeightNear ELSE WeightFar]
    ELSE [n \in 1..Len(examples["H"]) |-> WeightOne]

\* a variant of Augment that appends the longitude channels first
AugmentLonFirst(patch, examples, H, W) ==
    LET lat == linspace(examples["lat_start"], examples["lat_end"], H)
        lon == linspace(examples["long_start"], examples["long_end"], W)
        lat_cos == [i \in 1..H |-> [n \in 1..Len(lat[i]) |-> Cos(lat[i][n], 180)]]
        lat_sin == [i \in 1..H |-> [n \in 1..Len(lat[i]) |-> Sin(lat[i][n], 180)]]
        lon_cos == [i \in 1..W |-> [n \in 1..Len(lon[i]) |-> Cos(lon[i][n], 360)]]
        lon_sin == [i \in 1..W |-> [n \in 1..Len(lon[i]) |-> Sin(lon[i][n], 360)]]
    IN  concat(<<patch, TileLon(lon_cos, H), TileLon(lon_sin, H),
                 TileLat(lat_cos, W), TileLat(lat_sin, W)>>)

Augment(patch, examples, H, W) ==
    LET lat == linspace(examples["lat_start"], examples["lat_end"], H)
        lon == linspace(examples["long_start"], examples["long_end"], W)
        lat_cos == [i \in 1..H |-> [n \in 1..Len(lat[i]) |-> Cos(lat[i][n], 180)]]
        lat_sin == [i \in 1..H |-> [n \in 1..Len(lat[i]) |-> Sin(lat[i][n], 180)]]
        lon_cos == [i \in 1..W |-> [n \in 1..Len(lon[i]) |-> Cos(lon[i][n], 360)]]
        lon_sin == [i \in 1..W |-> [n \in 1..Len(lon[i]) |-> Sin(lon[i][n], 360)]]
    IN  concat(<<patch, TileLat(lat_cos, W), TileLat(lat_sin, W),
                 TileLon(lon_cos, H), TileLon(lon_sin, H)>>)

parse_train(serialized, append_latlon, discount, tmax) ==
    LET examples == parse_samples(serialized)
        H == examples["H"][1]
        W == examples["W"][1]
        C == examples["C"][1]
        T_max == ClassBound(examples, tmax)
        patch1 == reshape([n \in 1..Len(serialized) |-> decode_raw(examples["patch1"][n])], H, W, C)
        patch2 == reshape([n \in 1..Len(serialized) |-> decode_raw(examples["patch2"][n])], H, W, C)
    IN  [X |-> [img1 |-> IF append_latlon THEN Augment(patch1, examples, H, W) ELSE patch1,
                img2 |-> IF append_latlon THEN Augment(patch2, examples, H, W) ELSE patch2],
         y |-> Labels(examples, T_max),
         weights |-> Weights(examples, T_max, discount)]

---------------------------------------------------------------------------
(* The records a file can hold *)

\* the 4 little-endian bytes of the float32 with bit pattern bits
EncodeF32(bits) ==
    <<bits % 256, (bits \div 256) % 256, (bits \div 65536) % 256, (bits \div 16777216) % 256>>

\* the float stored at (h, w, c) of patch p of the record made with seed i
PatchValue(i, p, h, w, c, W, C) == 70000 * i + 300 * p + ((h - 1) * W + (w - 1)) * C + c

RECURSIVE PatchBytes(_, _, _, _)
PatchBytes(i, p, k, len) ==
    IF k > len THEN <<>>
    ELSE EncodeF32(70000 * i + 300 * p + k) \o PatchBytes(i, p, k + 1, len)

Geo ==
    <<[lat_start |-> -90, lat_end |-> 90, long_start |-> 0, long_end |-> 360],
      [lat_start |-> 30, lat_end |-> 60, long_start |-> -20, long_end |-> 40]>>

Record(i, H, W, C, T_max, label, g) ==
    [H |-> H, W |-> W, C |-> C, T_max |-> T_max, label |-> label,
     patch1 |-> PatchBytes(i, 1, 1, H * W * C),
     patch2 |-> PatchBytes(i, 2, 1, H * W * C),
     lat_start |-> Geo[g].lat_start, lat_end |-> Geo[g].lat_end,
     long_start |-> Geo[g].long_start, long_end |-> Geo[g].long_end]

\* labels around every boundary of the bucketing and of the discount
LabelSeq ==
    [i \in 1..(MaxT + 1) |-> i - 1]
    \o <<(n_classes + 1) \div 2, (n_classes + 1) \div 2 + 1, n_classes, n_classes + 1>>

\* the labels of a batch of N records: the labels that follow the k-th
LabelsOf(N, k) ==
    [i \in 1..N |-> LabelSeq[((k + i - 1) % Len(LabelSeq)) + 1]]

\* tmax arguments: None (0), a small bound, and Train's n_classes + 1
TmaxArgs == {0, MaxT, n_classes + 1}

DsIdle ==
    /\ cfg = [name |-> "none"]
    /\ files = <<>>
    /\ src = <<>>
    /\ buf = EmptyBag
    /\ emitted = 0
    /\ out = <<>>
    /\ status = "end"

FitIdle ==
    /\ epoch = 0
    /\ lr = InitialLr
    /\ best = 0
    /\ wait = 0
    /\ cooldown_counter = 0
    /\ stale = 0

ParseIdle ==
    /\ call = [name |-> "none"]
    /\ ret = <<>>

---------------------------------------------------------------------------
(* make_train_ds: the iterator of the dataset it returns *)

NumParallelReads == 4

Closed == [open |-> FALSE, runs |-> <<>>]

\* the reader of a fresh iterator: no file open yet
Reader0 == [slots |-> [i \in 1..NumParallelReads |-> Closed], next |-> 1, idx |-> 1]

\* the runs left after one record of the first run is read
Pop(runs) ==
    IF Head(runs).n > 1
    THEN <<[rec |-> Head(runs).rec, n |-> Head(runs).n - 1]>> \o Tail(runs)
    ELSE Tail(runs)

\* the runs left after k records of the first run are read (k <= its length)
Drop(runs, k) ==
    IF Head(runs).n > k
    THEN <<[rec |-> Head(runs).rec, n |-> Head(runs).n - k]>> \o Tail(runs)
    ELSE Tail(runs)

\* TFRecordDataset(files, num_parallel_reads=4): the files are read 4 at a time,
\* one record from each in turn; a file that ends gives its place to the next
\* unread file.  [rec |-> <<r>> or <<>> at the end, src |-> the reader after,
\* slot |-> the place the record was read from]
RECURSIVE Read(_, _)
Read(fs, s) ==
    LET slot == s.slots[s.idx]
        adv == (s.idx % NumParallelReads) + 1
    IN  IF slot.open
        THEN IF slot.runs # <<>>
             THEN [rec |-> <<Head(slot.runs).rec>>,
                   src |-> [s EXCEPT !.slots[s.idx].runs = Pop(slot.runs), !.idx = adv],
                   slot |-> s.idx]
             ELSE Read(fs, [s EXCEPT !.slots[s.idx] = Closed, !.idx = adv])
        ELSE IF s.next <= Len(fs)
        THEN Read(fs, [s EXCEPT !.slots[s.idx] = [open |-> TRUE, runs |-> fs[s.next]],
                                !.next = s.next + 1])
        ELSE IF \E i \in 1..NumParallelReads : s.slots[i].open
        THEN Read(fs, [s EXCEPT !.idx = adv])
        ELSE [rec |-> <<>>, src |-> s, slot |-> 0]

\* slot j is the only open one and no file is left to open: the reader goes
\* on reading from slot j alone
Sole(fs, s, j) ==
    /\ s.next > Len(fs)
    /\ \A i \in 1..NumParallelReads : i # j => ~s.slots[i].open

\* The records are kept as runs, and a run is moved through the pipeline in
\* one piece where that is the same as moving its records one by one; with
\* bulk = FALSE every record is moved on its own.
Stride(bulk, n) == IF bulk THEN n ELSE 1

\* the next record and how many copies of it the reader delivers in a row
\* (at least; 0 at the end)
Ahead(fs, s, bulk) ==
    LET r == Read(fs, s)
        left == r.src.slots[r.slot].runs
    IN  IF r.rec = <<>> THEN [rec |-> <<>>, n |-> 0, src |-> r.src]
        ELSE [rec |-> r.rec, src |-> r.src,
              n |-> IF Sole(fs, r.src, r.slot) /\ left # <<>> /\ Head(left).rec = r.rec[1]
                    THEN Stride(bulk, 1 + Head(left).n) ELSE 1]

\* the reader after k reads, 1 <= k <= Ahead(fs, s, bulk).n
ReadN(fs, s, k) ==
    LET r == Read(fs, s)
    IN  IF k = 1 THEN r.src
        ELSE [r.src EXCEPT !.slots[r.slot].runs = Drop(@, k - 1)]

Copies(r, k) == [x \in {r} |-> k]

Min(a, b) == IF a < b THEN a ELSE b

\* ds.shuffle(n_shuffle) refills its buffer up to n_shuffle records before it
\* draws one
RECURSIVE Fill(_, _, _, _, _)
Fill(fs, s, b, n, bulk) ==
    IF BagCardinality(b) >= n THEN [src |-> s, buf |-> b]
    ELSE LET a == Ahead(fs, s, bulk)
             k == Min(a.n, n - BagCardinality(b))
         IN  IF a.n = 0 THEN [src |-> a.src, buf |-> b]
             ELSE Fill(fs, ReadN(fs, s, k), b (+) Copies(a.rec[1], k), n, bulk)

\* What the stage before ds.batch(1) can deliver next: the next record read
\* when n_shuffle is None (0), any record of the refilled buffer otherwise.
\* [rec, n |-> how many copies of rec can be delivered in a row, src, buf |->
\* the reader and the buffer before the delivery, end |-> the reader once it
\* has been asked for one more record]
Draws(fs, c, s, b, bulk) ==
    IF c.n_shuffle = 0
    THEN LET a == Ahead(fs, s, bulk)
         IN  {[rec |-> a.rec, n |-> a.n, src |-> s, buf |-> b, refill |-> FALSE, end |-> a.src]}
    ELSE LET f == Fill(fs, s, b, c.n_shuffle, bulk)
             a == Ahead(fs, f.src, bulk)
         IN  IF f.buf = EmptyBag
             THEN {[rec |-> <<>>, n |-> 0, src |-> f.src, buf |-> f.buf, refill |-> FALSE,
                    end |-> a.src]}
             ELSE {[rec |-> <<r>>, src |-> f.src, buf |-> f.buf, end |-> a.src,
                    \* a buffer of copies of r alone, refilled with copies of r
                    refill |-> BagToSet(f.buf) = {r} /\ a.n > 0 /\ a.rec = <<r>>,
                    n |-> IF BagToSet(f.buf) # {r} THEN 1
                          ELSE IF a.n = 0 THEN Stride(bulk, CopiesIn(r, f.buf))
                          ELSE IF a.rec = <<r>> THEN Stride(bulk, a.n + 1)
                          ELSE 1] :
                      r \in BagToSet(f.buf)}

\* the reader and the buffer after k copies of d.rec are delivered, 1 <= k <= d.n
Deliver(fs, c, d, k) ==
    IF c.n_shuffle = 0
    THEN [src |-> ReadN(fs, d.src, k), buf |-> d.buf]
    ELSE IF k > 1 /\ d.refill
    THEN [src |-> ReadN(fs, d.src, k - 1), buf |-> d.buf (-) Copies(d.rec[1], 1)]
    ELSE [src |-> IF k > 1 THEN d.end ELSE d.src, buf |-> d.buf (-) Copies(d.rec[1], k)]

\* ds.batch(1).map(parse_train).unbatch(): the one sample of a record
Sample(c, r) ==
    LET t == parse_train(<<r>>, c.append_latlon, c.discount, c.tmax)
    IN  [X |-> [img1 |-> t.X.img1[1], img2 |-> t.X.img2[1]],
         y |-> t.y[1], weight |-> t.weights[1]]

\* a variant of Keep that lets all-zero label vectors pass
KeepZero(x) == reduce_sum(x.y) <= 1

\* ds.filter(lambda X, y, weight: tf.math.reduce_sum(y) == 1)
Keep(x) == reduce_sum(x.y) = 1

\* a batch is kept as runs [x, n] of n equal samples in a row
Size(batch) == reduce_sum([i \in 1..Len(batch) |-> batch[i].n])

Add(batch, x, k) ==
    IF batch # <<>> /\ batch[Len(batch)].x = x
    THEN [batch EXCEPT ![Len(batch)].n = @ + k]
    ELSE Append(batch, [x |-> x, n |-> k])

\* ds.batch(batch_size) has its batch when batch_size samples are in it
Full(c, batch) == Size(batch) = c.batch_size

\* a variant of Done without ds.batch(batch_size): whatever arrives is a batch
DoneAtOnce(c, p) == p.fin \/ p.batch # <<>>

Done(c, p) == p.fin \/ Full(c, p.batch)

\* the next elements are drawn, parsed, filtered and, if kept, put in the batch
Step(fs, c, p, bulk) ==
    {IF d.rec = <<>>
     THEN [src |-> d.src, buf |-> d.buf, batch |-> p.batch, fin |-> TRUE]
     ELSE LET x == Sample(c, d.rec[1])
              k == IF Keep(x) THEN Min(d.n, c.batch_size - Size(p.batch)) ELSE d.n
              after == Deliver(fs, c, d, k)
          IN  [src |-> after.src, buf |-> after.buf,
               batch |-> IF Keep(x) THEN Add(p.batch, x, k) ELSE p.batch,
               fin |-> FALSE] :
        d \in Draws(fs, c, p.src, p.buf, bulk)}

\* ds.batch(batch_size): elements are taken until the batch is full or the
\* input ends
RECURSIVE Collect(_, _, _, _)
Collect(fs, c, P, bulk) ==
    IF \A p \in P : Done(c, p) THEN P
    ELSE Collect(fs, c, UNION {IF Done(c, p) THEN {p} ELSE Step(fs, c, p, bulk) : p \in P}, bulk)

\* the outcomes of one next(iterator) from reader s and buffer b
Batches(fs, c, s, b, bulk) ==
    Collect(fs, c, {[src |-> s, buf |-> b, batch |-> <<>>, fin |-> FALSE]}, bulk)

make_train_ds(name, batch_size, n_shuffle, append_latlon, discount, tmax) ==
    [name |-> name, batch_size |-> batch_size, n_shuffle |-> n_shuffle,
     append_latlon |-> append_latlon, discount |-> discount, tmax |-> tmax,
     take |-> -1]

\* ds.take(count); a count of -1 takes everything
take(ds, count) == [ds EXCEPT !.take = count]

\* a variant of train_ds without take(5400)
train_ds_uncut ==
    make_train_ds("train_ds", TrainBatchSize, TrainShuffle, FALSE, FALSE, n_classes + 1)

\* Train.setup_ds
train_ds == take(make_train_ds("train_ds", TrainBatchSize, TrainShuffle, FALSE, FALSE, n_classes + 1),
                 TrainTake)

eval_ds == make_train_ds("eval_ds", TrainBatchSize, 0, FALSE, FALSE, n_classes + 1)

\* next(iterator): the next batch, or the end of the pass
GetNext ==
    /\ status = "iter"
    /\ IF cfg.take # -1 /\ emitted >= cfg.take
       THEN /\ status' = "end"
            /\ UNCHANGED <<src, buf, emitted, out>>
       ELSE \E p \in Batches(files, cfg, src, buf, TRUE) :
              /\ src' = p.src
              /\ buf' = p.buf
              /\ IF p.batch # <<>>
                 THEN /\ out' = <<p.batch>>
                      /\ emitted' = emitted + 1
                      /\ status' = status
                 ELSE /\ status' = "end"
                      /\ UNCHANGED <<emitted, out>>
    /\ UNCHANGED <<cfg, files, parseVars, fitVars>>

\* iter(ds): a new pass over the files
NewPass ==
    /\ cfg.name # "none"
    /\ status = "end" \/ emitted > 0
    /\ src' = Reader0
    /\ buf' = EmptyBag
    /\ emitted' = 0
    /\ out' = <<>>
    /\ status' = "iter"
    /\ UNCHANGED <<cfg, files, parseVars, fitVars>>

---------------------------------------------------------------------------
(* ParseSpec: one call of parse_train on a batch of 1..MaxN records *)

ParseInit ==
    /\ \E N \in 1..MaxN, H \in 1..MaxDim, W \in 1..MaxDim, C \in 1..2,
          T \in 1..MaxT, k \in 1..Len(LabelSeq),
          a \in BOOLEAN, d \in BOOLEAN, t \in TmaxArgs :
         call = [serialized |->
                    LET labels == LabelsOf(N, k)
                    IN  [i \in 1..N |-> Record(i, H, W, C, T, labels[i], ((k + i) % 2) + 1)],
                 append_latlon |-> a, discount |-> d, tmax |-> t]
    /\ ret = <<>>
    /\ DsIdle
    /\ FitIdle

ParseTrain ==
    /\ ret = <<>>
    /\ ret' = <<parse_train(call.serialized, call.append_latlon, call.discount, call.tmax)>>
    /\ UNCHANGED <<call, dsVars, fitVars>>

ParseNext == ParseTrain

ParseSpec == ParseInit /\ [][ParseNext]_vars

---------------------------------------------------------------------------
(* FitSpec: Train.train, the learning rate over the epochs of Model.fit *)

\* np.Inf: every loss improves on it
Inf == MaxLoss + MinDelta + 1

\* ReduceLROnPlateau.monitor_op in 'min' mode: np.less(a, b - min_delta)
monitor_op(a, b) == a < b - MinDelta

in_cooldown(counter) == counter > 0

Max(a, b) == IF a > b THEN a ELSE b

\* a variant of Expired that is one epoch early
ExpiredEarly(w) == w >= Patience - 1

\* wait >= patience
Expired(w) == w >= Patience

\* new_lr = max(old_lr * factor, min_lr), factor = 0.1
Reduced(old_lr) == Max(old_lr \div Factor, MinLr)

\* optimizer.learning_rate.assign(1e-1); ReduceLROnPlateau.on_train_begin
FitInit ==
    /\ epoch = 0
    /\ lr = InitialLr
    /\ best = Inf
    /\ wait = 0
    /\ cooldown_counter = 0
    /\ stale = 0
    /\ ParseIdle
    /\ DsIdle

\* the end of an epoch with training loss current: ReduceLROnPlateau.on_epoch_end
EpochEnd(current) ==
    /\ epoch < Epochs
    /\ epoch' = epoch + 1
    /\ LET counter == IF in_cooldown(cooldown_counter) THEN cooldown_counter - 1
                      ELSE cooldown_counter
           w0 == IF in_cooldown(cooldown_counter) THEN 0 ELSE wait
       IN  IF monitor_op(current, best)
           THEN /\ best' = current
                /\ wait' = 0
                /\ cooldown_counter' = counter
                /\ lr' = lr
           ELSE /\ best' = best
                /\ IF ~in_cooldown(counter)
                   THEN IF Expired(w0 + 1) /\ lr > MinLr
                        THEN /\ lr' = Reduced(lr)
                             /\ cooldown_counter' = Cooldown
                             /\ wait' = 0
                        ELSE /\ lr' = lr
                             /\ cooldown_counter' = counter
                             /\ wait' = w0 + 1
                   ELSE /\ lr' = lr
                        /\ cooldown_counter' = counter
                        /\ wait' = w0
    /\ stale' = IF monitor_op(current, best) THEN 0 ELSE stale + 1
    /\ UNCHANGED <<parseVars, dsVars>>

FitNext == \E current \in 0..MaxLoss : EpochEnd(current)

FitSpec == FitInit /\ [][FitNext]_vars

\* C4: the learning rate starts at 1e-1 and over the 110 epochs never rises; it
\* changes only at the end of an epoch that is at least the 8th in a row whose
\* loss did not improve on the best by more than 4e-2; a change divides it by 10;
\* it is never below 1e-5.
C4_LrReducedOnPlateau ==
    /\ lr = 10000
    /\ [][/\ lr' <= lr
          /\ lr' >= 1
          /\ epoch' <= 110
          /\ lr' # lr => /\ epoch' = epoch + 1
                         /\ stale' >= 8
                         /\ lr' * 10 = lr]_vars

\* C4 witness: four reductions took the rate to 1e-5, where it stays although
\* the plateau goes on
C4_Witness ==
    /\ lr = 1
    /\ epoch = 110
    /\ stale > 40
    /\ wait > 8
    /\ best < Inf

---------------------------------------------------------------------------
(* Claims about parse_train, checked under ParseSpec *)

Returned == ret # <<>>
Batch == call.serialized
BoundOf(c) == IF c.tmax # 0 THEN c.tmax ELSE c.serialized[1].T_max

\* C1: the label vector of a sample with label L has exactly T-1 entries (T = tmax
\* when given, else the record's T_max); for 1 <= L <= T-1 it has a 1 at index L-1
\* (position L counting from 1) and 0 elsewhere; for L <= 0 or L >= T it is all
\* zeros; with Train's tmax = n_classes + 1 it has 31 entries whatever T_max is.
C1_OneBucketPerLabel ==
    Returned =>
        LET T == BoundOf(call)
            y == ret[1].y
        IN  /\ Len(y) = Len(Batch)
            /\ \A n \in 1..Len(Batch) :
                 LET L == Batch[n].label IN
                 /\ Len(y[n]) = T - 1
                 /\ \A k \in 1..Len(y[n]) : y[n][k] \in {0, 1}
                 /\ (1 <= L /\ L <= T - 1) =>
                       /\ y[n][L] = 1
                       /\ \A k \in 1..(T - 1) : k # L => y[n][k] = 0
                 /\ (L <= 0 \/ L >= T) => \A k \in 1..(T - 1) : y[n][k] = 0
                 /\ call.tmax = 32 => Len(y[n]) = 31

\* C1 witness: Train's tmax on a record whose T_max is smaller, last bucket hit
C1_Witness ==
    /\ Returned
    /\ call.tmax = 32
    /\ Batch[1].T_max = 2
    /\ Batch[1].label = 31
    /\ ret[1].y[1][31] = 1
    /\ Len(Batch) = 2
    /\ reduce_sum(ret[1].y[2]) = 0

\* the float parse_train must deliver at (h, w, c) of patch p of sample n
Stored(n, p, h, w, c) == F32(PatchValue(n, p, h, w, c, Batch[1].W, Batch[1].C))

PairedImages(img1, img2, n, extra) ==
    LET H == Batch[1].H
        W == Batch[1].W
        C == Batch[1].C
    IN  /\ Len(img1[n]) = H /\ Len(img2[n]) = H
        /\ \A h \in 1..H :
             /\ Len(img1[n][h]) = W /\ Len(img2[n][h]) = W
             /\ \A w \in 1..W :
                  /\ Len(img1[n][h][w]) = C + extra
                  /\ Len(img2[n][h][w]) = C + extra
                  /\ \A c \in 1..C :
                       /\ img1[n][h][w][c] = Stored(n, 1, h, w, c)
                       /\ img2[n][h][w][c] = Stored(n, 2, h, w, c)
                  /\ \A c \in (C + 1)..(C + extra) :
                       img1[n][h][w][c] = img2[n][h][w][c]

GeoChannels(img, n) ==
    LET H == Batch[1].H
        W == Batch[1].W
        C == Batch[1].C
        r == Batch[n]
    IN  /\ \A h \in 1..H, w \in 1..W :
             /\ img[n][h][w][C + 1].fn = "cos" /\ img[n][h][w][C + 2].fn = "sin"
             /\ img[n][h][w][C + 3].fn = "cos" /\ img[n][h][w][C + 4].fn = "sin"
             \* latitude: constant along the width
             /\ img[n][h][w][C + 1] = img[n][h][1][C + 1]
             /\ img[n][h][w][C + 2] = img[n][h][1][C + 2]
             \* longitude: constant along the height
             /\ img[n][h][w][C + 3] = img[n][1][w][C + 3]
             /\ img[n][h][w][C + 4] = img[n][1][w][C + 4]
        \* the first row is at lat_start, the first column at long_start, and
        \* the last row / column at lat_end / long_end
        /\ img[n][1][1][C + 1] = [fn |-> "cos", num |-> Frac(r.lat_start, 180).num,
                                  den |-> Frac(r.lat_start, 180).den]
        /\ img[n][1][1][C + 4] = [fn |-> "sin", num |-> Frac(r.long_start, 360).num,
                                  den |-> Frac(r.long_start, 360).den]
        /\ H > 1 => img[n][H][1][C + 2] = [fn |-> "sin", num |-> Frac(r.lat_end, 180).num,
                                           den |-> Frac(r.lat_end, 180).den]
        /\ W > 1 => img[n][1][W][C + 3] = [fn |-> "cos", num |-> Frac(r.long_end, 360).num,
                                           den |-> Frac(r.long_end, 360).den]

\* C3: with append_latlon both images have C+4 channels, the first C the decoded
\* patch, the last 4 (lat_cos, lat_sin, lon_cos, lon_sin) the same in img1 and img2,
\* latitude constant along the width and longitude along the height; without it
\* both images are the C decoded channels.
C3_PairedAugmentation ==
    Returned =>
        LET X == ret[1].X IN
        /\ Len(X.img1) = Len(Batch) /\ Len(X.img2) = Len(Batch)
        /\ \A n \in 1..Len(Batch) :
             IF call.append_latlon
             THEN /\ PairedImages(X.img1, X.img2, n, 4)
                  /\ GeoChannels(X.img1, n)
                  /\ GeoChannels(X.img2, n)
             ELSE PairedImages(X.img1, X.img2, n, 0)

\* C3 witness: a 2x2x2 patch augmented to 6 channels, latitude varying with the
\* row and longitude with the column
C3_Witness ==
    /\ Returned
    /\ call.append_latlon
    /\ Batch[1].H = 2 /\ Batch[1].W = 2 /\ Batch[1].C = 2
    /\ Len(ret[1].X.img1[1][2][2]) = 6
    /\ ret[1].X.img1[1][1][1][3] # ret[1].X.img1[1][2][1][3]
    /\ ret[1].X.img2[1][1][1][5] # ret[1].X.img2[1][1][2][5]
    /\ ret[1].X.img1[1][2][2][2] # ret[1].X.img2[1][2][2][2]

\* C7: with discount the weight of a sample with label L is 1.9 when L <= T div 2
\* and 0.1 otherwise; without it each of the N samples has weight 1.0; the images
\* and label vectors are those of the call with the other value of discount.
C7_DiscountWeights ==
    Returned =>
        LET T == BoundOf(call)
            w == ret[1].weights
            other == parse_train(call.serialized, call.append_latlon, ~call.discount, call.tmax)
        IN  /\ Len(w) = Len(Batch)
            /\ \A n \in 1..Len(Batch) :
                 IF call.discount
                 THEN w[n] = (IF Batch[n].label <= T \div 2 THEN 19 ELSE 1)
                 ELSE w[n] = 10
            /\ ret[1].X = other.X
            /\ ret[1].y = other.y

\* C7 witness: a discounted batch with one sample on each side of T div 2, T = tmax
C7_Witness ==
    /\ Returned
    /\ call.discount
    /\ call.tmax = 32
    /\ Len(Batch) = 2
    /\ Batch[1].label = 16 /\ ret[1].weights[1] = 19
    /\ Batch[2].label = 17 /\ ret[1].weights[2] = 1
    /\ Batch[1].T_max = 3

---------------------------------------------------------------------------
(* DsSpec: passes over make_train_ds(files, batch_size, n_shuffle, ...) *)

\* The records of DsSpec, 1x1x1 patches: 1 falls in the first bucket, 2 in
\* the last bucket of tmax = MaxT but out of the range of the smaller T_max it
\* stores, and 3 has label 0
Alphabet(i) ==
    CASE i = 1 -> Record(1, 1, 1, 1, MaxT, 1, 1)
      [] i = 2 -> Record(2, 1, 1, 1, MaxT - 1, MaxT - 1, 2)
      [] i = 3 -> Record(3, 1, 1, 1, MaxT, 0, 1)

\* a file with the records q[from..to], equal records in a row as one run
RECURSIVE Runs(_, _, _)
Runs(q, from, to) ==
    IF from > to THEN <<>>
    ELSE LET rest == Runs(q, from + 1, to)
         IN  IF rest # <<>> /\ Head(rest).rec = Alphabet(q[from])
             THEN <<[rec |-> Head(rest).rec, n |-> Head(rest).n + 1]>> \o Tail(rest)
             ELSE <<[rec |-> Alphabet(q[from]), n |-> 1]>> \o rest

SmallInit ==
    /\ \E len \in 0..MaxLen :
         \E q \in [1..len -> 1..3], cut \in {0, len \div 2} :
           files = <<Runs(q, 1, cut), Runs(q, cut + 1, len)>>
    /\ \E bs \in 1..MaxBatch, ns \in {0, MaxShuffle}, t \in {0, MaxT} :
         cfg = make_train_ds("ds", bs, ns, t # 0, t = 0, t)

\* The records of Train's files: samples of the middle bucket (seed 2), around
\* them records with label 0 (seed 1), label n_classes + 1 (seed 3) and of the
\* last bucket (seed 4)
Low == Record(1, 1, 1, 1, MaxT, 0, 1)
Mid == Record(2, 1, 1, 1, MaxT, (n_classes + 1) \div 2, 1)
High == Record(3, 1, 1, 1, MaxT, n_classes + 1, 1)
Last == Record(4, 1, 1, 1, MaxT, n_classes, 2)

Run(r, n) == [rec |-> r, n |-> n]

\* files for train_ds: more samples than 5400 batches hold; exactly as many;
\* and two batches and a rest behind a record the filter drops
TrainFiles ==
    {<<<<Run(Mid, TrainTake * TrainBatchSize + TrainBatchSize + 2)>>>>,
     <<<<Run(Mid, TrainTake * TrainBatchSize)>>>>,
     <<<<Run(Low, 1), Run(Mid, 2 * TrainBatchSize + 10)>>>>}

\* files for eval_ds: two files, more samples than 5400 batches hold, records
\* the filter drops among them; and a single short file
EvalFiles ==
    {<<<<Run(Low, 1), Run(Mid, 1)>>,
       <<Run(Mid, TrainTake * TrainBatchSize + TrainBatchSize), Run(High, 2), Run(Last, 3)>>>>,
     <<<<Run(Mid, 3), Run(High, 1), Run(Last, 1)>>>>}

TrainInit ==
    \/ cfg = train_ds /\ files \in TrainFiles
    \/ cfg = eval_ds /\ files \in EvalFiles

DsInit ==
    /\ SmallInit \/ TrainInit
    /\ src = Reader0
    /\ buf = EmptyBag
    /\ emitted = 0
    /\ out = <<>>
    /\ status = "iter"
    /\ ParseIdle
    /\ FitIdle

DsNext == GetNext \/ NewPass

DsSpec == DsInit /\ [][DsNext]_vars

---------------------------------------------------------------------------
(* Claims about the batches of make_train_ds and of Train's datasets,       *)
(* checked under DsSpec                                                     *)

\* the record a sample was parsed from, by the seed its patch was written with
Seed(x) == x.X.img1[1][1][1].num \div 70000

Recs == UNION {{files[f][i].rec : i \in 1..Len(files[f])} : f \in 1..Len(files)}

RecordOf(x) == CHOOSE r \in Recs : decode_raw(r.patch1)[1] = x.X.img1[1][1][1]

ClassBoundOf(r) == IF cfg.tmax # 0 THEN cfg.tmax ELSE r.T_max

Ones(y) == {k \in 1..Len(y) : y[k] = 1}

\* C2: every sample of every batch yielded has a label vector with exactly one
\* entry equal to 1, at the place of its label L, 1 <= L <= T-1; a sample with an
\* all-zero label vector is in no batch.
C2_OnlyValidLabels ==
    out # <<>> =>
        \A i \in 1..Len(out[1]) :
            LET x == out[1][i].x
                L == RecordOf(x).label
            IN  /\ \A k \in 1..Len(x.y) : x.y[k] \in {0, 1}
                /\ Cardinality(Ones(x.y)) = 1
                /\ 1 <= L /\ L <= ClassBoundOf(RecordOf(x)) - 1
                /\ Ones(x.y) = {L}

Total == reduce_sum([f \in 1..Len(files) |-> reduce_sum([i \in 1..Len(files[f]) |-> files[f][i].n])])

\* the pass is over: nothing is left to read or to draw
Drained == buf = EmptyBag /\ Read(files, src).rec = <<>>

\* C2 witness: a shuffled pass over 4 records ended with one batch of the only
\* two samples whose label is in range
C2_Witness ==
    /\ out # <<>>
    /\ cfg.name = "ds" /\ cfg.n_shuffle > 0 /\ cfg.tmax = 0
    /\ Total = 4
    /\ Alphabet(2) \in Recs /\ Alphabet(3) \in Recs
    /\ status = "end"
    /\ emitted = 1
    /\ Size(out[1]) = 2

\* C5: every batch yielded has batch_size samples, except that the last batch of
\* a pass may have fewer, and at least 1 (a batch that follows another follows a
\* full one); a batch of train_ds or eval_ds has at most 128 samples.
C5_BatchSizes ==
    [][emitted' = emitted + 1 =>
          /\ out' # <<>>
          /\ \A i \in 1..Len(out'[1]) : out'[1][i].n >= 1
          /\ Size(out'[1]) >= 1
          /\ Size(out'[1]) <= cfg.batch_size
          /\ out # <<>> => Size(out[1]) = cfg.batch_size
          /\ cfg.name \in {"train_ds", "eval_ds"} => Size(out'[1]) <= 128]_vars

\* C5 witness: batch_size 2, four records of which three pass the filter: a
\* full batch, then the last batch with one sample
C5_Witness ==
    /\ cfg.name = "ds" /\ cfg.batch_size = 2
    /\ Total = 4
    /\ emitted = 2
    /\ Size(out[1]) = 1
    /\ status = "end"

\* samples a dataset yields in one pass over the files
ValidCount ==
    reduce_sum([f \in 1..Len(files) |->
        reduce_sum([i \in 1..Len(files[f]) |->
            IF Keep(Sample(cfg, files[f][i].rec)) THEN files[f][i].n ELSE 0])])

\* samples yielded so far in this pass: all batches but the last are full
Yielded == IF emitted = 0 THEN 0 ELSE (emitted - 1) * cfg.batch_size + Size(out[1])

\* C6: a pass over train_ds yields at most 5400 batches of at most 128 samples
\* (at most 691,200 samples); the cut counts batches of samples that passed the
\* filter, so a pass yields 5400 batches when the files hold that many and every
\* batch otherwise; eval_ds uses no shuffle buffer and a pass yields every sample
\* of its files, in the order they are read.
C6_TrainSetCut ==
    /\ cfg.name = "train_ds" =>
         /\ emitted <= 5400
         /\ out # <<>> => Size(out[1]) <= 128
         /\ Yielded <= 691200
         /\ status = "end" =>
              emitted = Min(5400, (ValidCount + 127) \div 128)
    /\ cfg.name = "eval_ds" =>
         /\ buf = EmptyBag
         /\ out # <<>> =>
              \A i \in 1..(Len(out[1]) - 1) : Seed(out[1][i].x) <= Seed(out[1][i + 1].x)
         /\ status = "end" => Yielded = ValidCount

\* C6 witness: train_ds stopped after 5400 full batches with records unread
C6_Witness ==
    /\ cfg.name = "train_ds"
    /\ status = "end"
    /\ emitted = 5400
    /\ Size(out[1]) = 128
    /\ ~Drained
    /\ ValidCount > 691200

\* Moving runs in one piece yields the batches that moving single records
\* yields (an invariant of DsSpec; files of 1000 records or more are left out,
\* for them only the time it takes differs).
StrideSound ==
    (status = "iter" /\ Total < 1000) =>
        Batches(files, cfg, src, buf, TRUE) = Batches(files, cfg, src, buf, FALSE)

====
